---- MODULE Spec2Model ----
(***************************************************************************)
(* Galaxy-Simulation: the GalaxySimulation controller (src/galaxy.js) and  *)
(* the host loop and UI handlers that drive it (src/main.js).              *)
(*                                                                         *)
(* JavaScript runs every handler to completion; the only points at which   *)
(* another task (a UI event, the next requestAnimationFrame callback) can  *)
(* run are the awaits of update().  renderer.computeAsync(kernel) submits  *)
(* the kernel when it is called and returns a promise; when that promise   *)
(* resolves is decided by the renderer, not by this repository, so the     *)
(* resumption of each suspended update() is a separate step of the model.  *)
(* Kernels submitted to the GPU queue execute in submission order, so the  *)
(* effect of a kernel on its buffers is applied at submission.             *)
(***************************************************************************)
EXTENDS Integers, Sequences, FiniteSets, Bags, TLC

\* Most animate() activations suspended inside update() at the same time.
MaxInFlight == 2

\* Buffer allocations are named 1..MaxAlloc; a name is reused once the
\* allocation it named has been dropped (only the latest one is referenced).
MaxAlloc == 2

\* Particle counts the UI can request (in model units).
StarCounts == {1, 2}
CloudCounts == {1, 2}

\* Keys of configUpdate that updateUniforms copies into uniforms.galaxy,
\* uniforms.compute and uniforms.visual.
ShapeKeys == {"galaxyRadius", "galaxyThickness", "spiralTightness",
              "armCount", "armWidth", "randomness"}
PhysKeys == {"rotationSpeed", "mouseForce", "mouseRadius"}
TintKeys == {"cloudTintColor"}
UniformKeys == ShapeKeys \cup PhysKeys \cup TintKeys

\* config as main.js declares it (values scaled to integers: x100, except
\* armCount; the tint is the colour's 24-bit code).
DefaultConfig ==
  [k \in UniformKeys \cup {"starCount", "cloudCount"} |->
     CASE k = "galaxyRadius" -> 1300
       [] k = "galaxyThickness" -> 600
       [] k = "spiralTightness" -> 150
       [] k = "armCount" -> 2
       [] k = "armWidth" -> 225
       [] k = "randomness" -> 185
       [] k = "rotationSpeed" -> 12
       [] k = "mouseForce" -> 600
       [] k = "mouseRadius" -> 500
       [] k = "cloudTintColor" -> 16767182
       [] k = "starCount" -> 2
       [] k = "cloudCount" -> 1]

\* Values a UI control can set a key to: its default and one other value.
AltValue(k) ==
  CASE k = "galaxyRadius" -> 2000
    [] k = "galaxyThickness" -> 100
    [] k = "spiralTightness" -> 200
    [] k = "armCount" -> 3
    [] k = "armWidth" -> 0
    [] k = "randomness" -> 0
    [] k = "rotationSpeed" -> 50
    [] k = "mouseForce" -> 1000
    [] k = "mouseRadius" -> 1400
    [] k = "cloudTintColor" -> 7055564

ValuesOf(k) == {DefaultConfig[k], AltValue(k)}

NoKernel == [alloc |-> 0, count |-> 0]
NoSprite == [kind |-> "none", alloc |-> 0, count |-> 0]
NoBake == <<>>

----------------------------------------------------------------------------
\* Arithmetic of the kernels.  A float is held as an integer count of
\* hundredths (Unit); products and quotients are cut to that precision.
Unit == 100

Abs(a) == IF a < 0 THEN -a ELSE a
Min(a, b) == IF a <= b THEN a ELSE b
Max(a, b) == IF a >= b THEN a ELSE b

\* Quotient cut toward zero, d # 0.
Quot(n, d) ==
  IF (n >= 0) = (d > 0) THEN Abs(n) \div Abs(d) ELSE -(Abs(n) \div Abs(d))

\* a.mul(b) and a.div(b) of two floats.
Mul(a, b) == Quot(a * b, Unit)
Div(a, b) == Quot(a * Unit, b)

\* The largest r in lo..hi with r * r <= n (a root of a 32-bit n is at most
\* 46340).
RECURSIVE RootBetween(_, _, _)
RootBetween(lo, hi, n) ==
  IF lo >= hi THEN lo
  ELSE LET mid == (lo + hi + 1) \div 2
       IN IF mid * mid <= n THEN RootBetween(mid, hi, n)
          ELSE RootBetween(lo, mid - 1, n)

\* sqrt of a float.
Sqrt(a) == RootBetween(0, Min(a * Unit, 46340), a * Unit)

\* The literals of the kernels.
TWO_PI == 628
HALF == 50
EPSILON == 1
StarThicknessBase == 20
CloudThicknessBase == 15
StarStiffness == 200
CloudStiffness == 100

\* cos and sin, exact at the quarter turns: the angle is taken to the
\* nearest quarter turn, where both are 0, 1 or -1, so that a rotation is the
\* isometry it is in the reals and cos^2 + sin^2 = 1.
QuarterOf(angle) == ((4 * angle + TWO_PI \div 2) \div TWO_PI) % 4
Cos(angle) == CASE QuarterOf(angle) = 0 -> Unit
                [] QuarterOf(angle) = 2 -> -Unit
                [] OTHER -> 0
Sin(angle) == CASE QuarterOf(angle) = 1 -> Unit
                [] QuarterOf(angle) = 3 -> -Unit
                [] OTHER -> 0

\* length(v) and its square, of a vec3 <<x, y, z>>.
Sub(v, w) == <<v[1] - w[1], v[2] - w[2], v[3] - w[3]>>
Add(v, w) == <<v[1] + w[1], v[2] + w[2], v[3] + w[3]>>
Scale(v, a) == <<Mul(v[1], a), Mul(v[2], a), Mul(v[3], a)>>
Length2(v) == v[1] * v[1] + v[2] * v[2] + v[3] * v[3]
Length(v) == RootBetween(0, Min(Length2(v), 46340), Length2(v))
Zero == <<0, 0, 0>>

\* deltaTime is held in thousandths of a second.
Milli == 1000
MulDt(a, deltaTime) == Quot(a * deltaTime, Milli)

\* What a float division by zero leaves in every value computed from it.
NaN == "NaN"

\* hash(seed): a value in [0, 1) that depends on the seed alone.  The seeds
\* of one particle are its index plus the salts 1..7; draws[salt] is the
\* value of the hash at that seed.
HashValues == {0, 50, 99}
Salts == 1..7
hash(draws, salt) == draws[salt]

\* pow(0.5) and pow(0.7) of a hash value.
Pow05(h) == Sqrt(h)
Pow07(h) == CASE h = 0 -> 0
              [] h = 50 -> 62
              [] h = 99 -> 99
              [] OTHER -> Sqrt(h)

\* A jitter term: (hash - 0.5) * amount.
\* Mutant of Jitter: the draw is not centred.
Jitter_NotCentred(h, amount) == Mul(h, amount)

\* Mutant of Jitter: the draw is not scaled by the amount.
Jitter_NotScaled(h, amount) == h - HALF

Jitter(h, amount) == Mul(h - HALF, amount)

\* Mutant of Sparsity: the two ratios are added, neither halved nor capped.
Sparsity_SumUncapped(radiusOffset, angleOffset, u) ==
  LET radialSparsity == Div(Abs(radiusOffset), Mul(u["armWidth"], HALF) + EPSILON)
      angularSparsity == Div(Abs(angleOffset), Mul(u["randomness"], HALF) + EPSILON)
  IN radialSparsity + angularSparsity

\* sparsityFactor of computeInit.
Sparsity(radiusOffset, angleOffset, u) ==
  LET radialSparsity == Div(Abs(radiusOffset), Mul(u["armWidth"], HALF) + EPSILON)
      angularSparsity == Div(Abs(angleOffset), Mul(u["randomness"], HALF) + EPSILON)
  IN Min(Mul(radialSparsity + angularSparsity, HALF), Unit)

\* The values computeInit and cloudInit compute for one index before they
\* assign: the two kernels differ in the exponent of the radius draw (biased)
\* and in the constant of the thickness factor (base).
Spiral(draws, u, biased, base) ==
  LET radius == Mul(biased, u["galaxyRadius"])
      normalizedRadius == Div(radius, u["galaxyRadius"])
      armIndex == (hash(draws, 2) * u["armCount"]) \div Unit
      armAngle == IF u["armCount"] = 0 THEN NaN
                  ELSE Quot(armIndex * TWO_PI, u["armCount"])
      spiralAngle == Mul(Mul(normalizedRadius, u["spiralTightness"]), TWO_PI)
      angleOffset == Jitter(hash(draws, 3), u["randomness"])
      radiusOffset == Jitter(hash(draws, 4), u["armWidth"])
      angle == IF u["armCount"] = 0 THEN NaN
               ELSE armAngle + spiralAngle + angleOffset
      offsetRadius == radius + radiusOffset
      x == IF u["armCount"] = 0 THEN NaN ELSE Mul(Cos(angle), offsetRadius)
      z == IF u["armCount"] = 0 THEN NaN ELSE Mul(Sin(angle), offsetRadius)
      thicknessFactor == Unit - normalizedRadius + base
      y == Mul(Mul(hash(draws, 5) - HALF, u["galaxyThickness"]), thicknessFactor)
  IN [position |-> <<x, y, z>>,
      radius |-> radius, normalizedRadius |-> normalizedRadius,
      armCount |-> u["armCount"], armIndex |-> armIndex,
      armAngle |-> armAngle, spiralAngle |-> spiralAngle,
      angleOffset |-> angleOffset, radiusOffset |-> radiusOffset,
      angle |-> angle, offsetRadius |-> offsetRadius,
      galaxyThickness |-> u["galaxyThickness"],
      galaxyRadius |-> u["galaxyRadius"],
      armWidth |-> u["armWidth"], randomness |-> u["randomness"],
      spiralTightness |-> u["spiralTightness"],
      undefined |-> IF u["armCount"] = 0 THEN {"armAngle", "angle", "x", "z"}
                    ELSE {}]

\* orbitalSpeed of computeInit: float(1.0).div(offsetRadius.add(0.5)).mul(5.0).
\* A float division by zero gives an infinity (marked in the element's
\* calc.undefined; the number held is then 0).
orbitalSpeed(offsetRadius) ==
  IF offsetRadius + HALF = 0 THEN 0
  ELSE Mul(Div(Unit, offsetRadius + HALF), 5 * Unit)

\* The vec3 computeInit assigns to velocityBuffer.
Velocity(g) ==
  IF "angle" \in g.undefined THEN <<NaN, 0, NaN>>
  ELSE <<-Mul(Sin(g.angle), orbitalSpeed(g.offsetRadius)), 0,
         Mul(Cos(g.angle), orbitalSpeed(g.offsetRadius))>>

\* What computeInit computed for one index: the values of Spiral and the
\* orbital speed.
StarCalc(g) ==
  [k \in DOMAIN g \cup {"orbitalSpeed"} |->
     IF k = "orbitalSpeed" THEN orbitalSpeed(g.offsetRadius)
     ELSE IF k = "undefined"
          THEN g.undefined \cup (IF g.offsetRadius + HALF = 0
                                 THEN {"orbitalSpeed", "velocity"} ELSE {})
          ELSE g[k]]

\* Mutant of computeInit: the anchor is written before the radial jitter is
\* added.
computeInit_AnchorUnjittered(e, draws, u) ==
  LET g == Spiral(draws, u, Pow05(hash(draws, 1)), StarThicknessBase)
  IN [e EXCEPT
        !.position = g.position,
        !.originalPosition = <<Mul(Cos(g.angle), g.radius), g.position[2],
                               Mul(Sin(g.angle), g.radius)>>,
        !.attribute = [densityFactor |-> Sparsity(g.radiusOffset, g.angleOffset, u)],
        !.calc = g]

\* Mutant of computeInit: the anchor is written only if it was never
\* written.
computeInit_KeepsAnchor(e, draws, u) ==
  LET g == Spiral(draws, u, Pow05(hash(draws, 1)), StarThicknessBase)
  IN [e EXCEPT
        !.position = g.position,
        !.originalPosition = IF e.originalPosition = Zero THEN g.position ELSE @,
        !.attribute = [densityFactor |-> Sparsity(g.radiusOffset, g.angleOffset, u)],
        !.calc = g]

\* The body of computeInit for one index: what it assigns to the element e
\* of spawnPositionBuffer, originalPositionBuffer, velocityBuffer and
\* densityFactorBuffer
\* (calc: the intermediate values it computed).
computeInit(e, draws, u) ==
  LET g == Spiral(draws, u, Pow05(hash(draws, 1)), StarThicknessBase)
  IN [e EXCEPT
        !.position = g.position,
        !.originalPosition = g.position,
        !.velocity = Velocity(g),
        !.attribute = [densityFactor |-> Sparsity(g.radiusOffset, g.angleOffset, u)],
        !.calc = StarCalc(g)]

\* The body of cloudInit for one index: cloudPositionBuffer,
\* cloudOriginalPositionBuffer, cloudColorSizeBuffer, cloudRotationBuffer.
cloudInit(e, draws, u) ==
  LET g == Spiral(draws, u, Pow07(hash(draws, 1)), CloudThicknessBase)
      shade == Unit - Mul(g.normalizedRadius, 30)
      densityFactor == Unit - Mul(g.normalizedRadius, HALF)
      size == Mul(Mul(hash(draws, 6), HALF) + 70, densityFactor)
      rotation == Mul(hash(draws, 7), TWO_PI)
  IN [e EXCEPT
        !.position = g.position,
        !.originalPosition = g.position,
        !.attribute = [tint |-> u["cloudTintColor"], shade |-> shade,
                       size |-> size, rotation |-> rotation],
        !.calc = g]

\* An element of freshly allocated (zero-filled) buffers (the clouds have no
\* velocity buffer: the field stays as it is for them).
ZeroElement == [position |-> Zero, originalPosition |-> Zero,
                velocity |-> Zero, attribute |-> <<>>, calc |-> <<>>]

\* applyDifferentialRotation(pos, rotationSpeed, deltaTime): a rotation about
\* the vertical axis by an angle that grows with rotationSpeed and deltaTime
\* and falls with the distance of pos from the axis.
rotationAmount(pos, rotationSpeed, deltaTime) ==
  LET distFromCenter == Length(<<pos[1], 0, pos[3]>>)
      angularSpeed == Div(rotationSpeed, Unit + distFromCenter)
  IN MulDt(angularSpeed, deltaTime)

applyDifferentialRotation(pos, rotationSpeed, deltaTime) ==
  LET c == Cos(rotationAmount(pos, rotationSpeed, deltaTime))
      s == Sin(rotationAmount(pos, rotationSpeed, deltaTime))
  IN <<Mul(pos[1], c) - Mul(pos[3], s), pos[2], Mul(pos[1], s) + Mul(pos[3], c)>>

\* applyMouseForce(position, mouse, mouseActive, mouseForce, mouseRadius,
\* deltaTime): zero if the pointer is inactive or position is not nearer to
\* it than mouseRadius; else a push away from the pointer, scaled by
\* mouseForce, deltaTime and a falloff that is 1 at the pointer and 0 at
\* mouseRadius.
applyMouseForce(position, mouse, mouseActive, mouseForce, mouseRadius, deltaTime) ==
  LET away == Sub(position, mouse)
      dist == Length(away)
  IN IF mouseActive = 0 \/ dist >= mouseRadius \/ dist = 0 THEN Zero
     ELSE LET falloff == Unit - Div(dist, mouseRadius)
              strength == MulDt(Mul(mouseForce, falloff), deltaTime)
          IN <<Quot(away[1] * strength, dist), Quot(away[2] * strength, dist),
               Quot(away[3] * strength, dist)>>

\* applySpringForce(position, target, stiffness, deltaTime): the vector from
\* position to target, scaled by stiffness and deltaTime.
applySpringForce(position, target, stiffness, deltaTime) ==
  LET toTarget == Sub(target, position)
  IN <<Quot(toTarget[1] * stiffness * deltaTime, Unit * Milli),
       Quot(toTarget[2] * stiffness * deltaTime, Unit * Milli),
       Quot(toTarget[3] * stiffness * deltaTime, Unit * Milli)>>

\* Mutant of computeUpdate: the spring pulls toward the anchor as it was
\* before the step's rotation.
computeUpdate_SpringToOldAnchor(e, c) ==
  LET rotatedPos == applyDifferentialRotation(e.position, c.rotationSpeed, c.deltaTime)
      rotatedOriginal ==
        applyDifferentialRotation(e.originalPosition, c.rotationSpeed, c.deltaTime)
      mouseForce == applyMouseForce(rotatedPos, c.mouse, c.mouseActive,
                                    c.mouseForce, c.mouseRadius, c.deltaTime)
      pushed == Add(rotatedPos, mouseForce)
      springForce == applySpringForce(pushed, e.originalPosition, StarStiffness,
                                      c.deltaTime)
  IN [e EXCEPT !.position = Add(pushed, springForce),
               !.originalPosition = rotatedOriginal]

\* Mutant of computeUpdate: the pointer force is taken at the position as
\* it was before the step's rotation.
computeUpdate_ForceBeforeRotation(e, c) ==
  LET rotatedPos == applyDifferentialRotation(e.position, c.rotationSpeed, c.deltaTime)
      rotatedOriginal ==
        applyDifferentialRotation(e.originalPosition, c.rotationSpeed, c.deltaTime)
      mouseForce == applyMouseForce(e.position, c.mouse, c.mouseActive,
                                    c.mouseForce, c.mouseRadius, c.deltaTime)
      pushed == Add(rotatedPos, mouseForce)
      springForce == applySpringForce(pushed, rotatedOriginal, StarStiffness, c.deltaTime)
  IN [e EXCEPT !.position = Add(pushed, springForce),
               !.originalPosition = rotatedOriginal]

\* Mutant of computeUpdate: the spring is taken from the rotated position,
\* before the pointer displacement is added.
computeUpdate_SpringBeforePointer(e, c) ==
  LET rotatedPos == applyDifferentialRotation(e.position, c.rotationSpeed, c.deltaTime)
      rotatedOriginal ==
        applyDifferentialRotation(e.originalPosition, c.rotationSpeed, c.deltaTime)
      mouseForce == applyMouseForce(rotatedPos, c.mouse, c.mouseActive,
                                    c.mouseForce, c.mouseRadius, c.deltaTime)
      springForce == applySpringForce(rotatedPos, rotatedOriginal, StarStiffness,
                                      c.deltaTime)
  IN [e EXCEPT !.position = Add(Add(rotatedPos, mouseForce), springForce),
               !.originalPosition = rotatedOriginal]

\* Mutant of computeUpdate: the step also turns the stored velocity with the
\* anchor.
computeUpdate_TurnsVelocity(e, c) ==
  LET rotatedPos == applyDifferentialRotation(e.position, c.rotationSpeed, c.deltaTime)
      rotatedOriginal ==
        applyDifferentialRotation(e.originalPosition, c.rotationSpeed, c.deltaTime)
      mouseForce == applyMouseForce(rotatedPos, c.mouse, c.mouseActive,
                                    c.mouseForce, c.mouseRadius, c.deltaTime)
      pushed == Add(rotatedPos, mouseForce)
      springForce == applySpringForce(pushed, rotatedOriginal, StarStiffness, c.deltaTime)
      turn == rotationAmount(e.originalPosition, c.rotationSpeed, c.deltaTime)
  IN [e EXCEPT !.position = Add(pushed, springForce),
               !.originalPosition = rotatedOriginal,
               !.velocity = <<Mul(@[1], Cos(turn)) - Mul(@[3], Sin(turn)), @[2],
                              Mul(@[1], Sin(turn)) + Mul(@[3], Cos(turn))>>]

\* Mutant of computeUpdate: the pointer pushes the anchor as well.
computeUpdate_PushesAnchor(e, c) ==
  LET rotatedPos == applyDifferentialRotation(e.position, c.rotationSpeed, c.deltaTime)
      rotatedOriginal ==
        applyDifferentialRotation(e.originalPosition, c.rotationSpeed, c.deltaTime)
      mouseForce == applyMouseForce(rotatedPos, c.mouse, c.mouseActive,
                                    c.mouseForce, c.mouseRadius, c.deltaTime)
      pushed == Add(rotatedPos, mouseForce)
      springForce == applySpringForce(pushed, rotatedOriginal, StarStiffness, c.deltaTime)
  IN [e EXCEPT !.position = Add(pushed, springForce),
               !.originalPosition = Add(rotatedOriginal, mouseForce)]

\* The body of computeUpdate for one index: the element e of the star
\* buffers after it, given the uniforms.compute values c.
computeUpdate(e, c) ==
  LET rotatedPos == applyDifferentialRotation(e.position, c.rotationSpeed, c.deltaTime)
      rotatedOriginal ==
        applyDifferentialRotation(e.originalPosition, c.rotationSpeed, c.deltaTime)
      mouseForce == applyMouseForce(rotatedPos, c.mouse, c.mouseActive,
                                    c.mouseForce, c.mouseRadius, c.deltaTime)
      pushed == Add(rotatedPos, mouseForce)
      springForce == applySpringForce(pushed, rotatedOriginal, StarStiffness, c.deltaTime)
  IN [e EXCEPT !.position = Add(pushed, springForce),
               !.originalPosition = rotatedOriginal]

\* The body of cloudUpdate for one index.
cloudUpdate(e, c) ==
  LET rotatedPos == applyDifferentialRotation(e.position, c.rotationSpeed, c.deltaTime)
      rotatedOriginal ==
        applyDifferentialRotation(e.originalPosition, c.rotationSpeed, c.deltaTime)
      mouseForce == applyMouseForce(rotatedPos, c.mouse, c.mouseActive,
                                    c.mouseForce, c.mouseRadius, c.deltaTime)
      pushed == Add(rotatedPos, mouseForce)
      springForce == applySpringForce(pushed, rotatedOriginal, CloudStiffness, c.deltaTime)
  IN [e EXCEPT !.position = Add(pushed, springForce),
               !.originalPosition = rotatedOriginal]

VARIABLES
  sim,        \* the GalaxySimulation object: its fields, buffers, kernels,
              \* and the config and scene objects it holds references to
  inflight,   \* bag of the await each suspended animate() activation is at
  epoch,      \* per subsystem: what began the current epoch, and how many
              \* times its generation kernel was dispatched since
  lastSet,    \* per key: the value most recently handed to updateUniforms
  lastPhys,   \* the physics parameters read by the latest physics dispatch
  regenShapes, \* the shapes (uniforms.galaxy) that were in force at
              \* construction or at a call of regenerate()
  lane,       \* one index of one subsystem, in numbers: the element of its
              \* buffers at that index, the hash draws of that index, and the
              \* uniforms, config and flags the kernels run with
  calls,      \* the update() calls in numbers: the frame members of
              \* uniforms.compute, main.js's mouse3D, the arguments of each
              \* suspended call, and the latest dispatch
  page        \* the page of the version that persists the star count: the
              \* item of sessionStorage, who wrote it, and config.starCount
              \* of the page as loaded

vars == <<sim, inflight, epoch, lastSet, lastPhys, regenShapes, lane, calls,
          page>>

\* The name of the allocation made after allocation a.
NewAlloc(a) == (a % MaxAlloc) + 1

\* instancedArray(n, ...): n zero-filled elements, written by no kernel yet.
\* One record stands for the elements at one index of all the buffers of a
\* subsystem (position, anchor, velocity, derived attributes).
instancedArray(n) ==
  [i \in 1..n |-> [gen |-> 0, baked |-> NoBake, stepped |-> FALSE]]

\* What the generation kernel reads: computeInit reads uniforms.galaxy,
\* cloudInit reads uniforms.galaxy and uniforms.visual.cloudTintColor.
StarBake(u) == [k \in ShapeKeys |-> u[k]]
CloudBake(u) == [k \in ShapeKeys \cup TintKeys |-> u[k]]

\* Mutant of PhysRead: the physics parameters are baked into the kernel as
\* the constants they had when it was built.
PhysRead_BakedAtBuild(u) == [k \in PhysKeys |-> DefaultConfig[k]]

\* What the physics kernels read of the parameters updateUniforms sets.
PhysRead(u) == [k \in PhysKeys |-> u[k]]

\* A kernel created by .compute(count) runs its body for instanceIndex
\* 0..count-1 on the buffers it was built over.
RunInit(buffers, kernel, bake) ==
  IF kernel.alloc # buffers.alloc THEN buffers
  ELSE [buffers EXCEPT !.particles =
          [i \in DOMAIN buffers.particles |->
             IF i <= kernel.count
             THEN [gen |-> kernel.alloc, baked |-> bake, stepped |-> FALSE]
             ELSE buffers.particles[i]]]

\* The physics kernel reads position and anchor of its own index, rotates
\* both, adds the pointer and spring displacements and writes them back; it
\* writes no other buffer and reads no uniform of uniforms.galaxy.
RunUpdate(buffers, kernel) ==
  IF kernel.alloc # buffers.alloc THEN buffers
  ELSE [buffers EXCEPT !.particles =
          [i \in DOMAIN buffers.particles |->
             IF i <= kernel.count
             THEN [buffers.particles[i] EXCEPT !.stepped = TRUE]
             ELSE buffers.particles[i]]]

\* Mutant of createGalaxySystem: the old sprite stays in the scene.
createGalaxySystem_KeepsOldSprite(s) ==
  LET a == NewAlloc(s.starBuffers.alloc)
      sprite == [kind |-> "galaxy", alloc |-> a, count |-> s.COUNT]
  IN [s EXCEPT
        !.scene = @ \cup {sprite},
        !.starBuffers = [alloc |-> a, particles |-> instancedArray(s.COUNT)],
        !.computeInit = [alloc |-> a, count |-> s.COUNT],
        !.computeUpdate = [alloc |-> a, count |-> s.COUNT],
        !.galaxy = sprite]

\* createGalaxySystem(): drop the old sprite, allocate the star buffers,
\* build both star kernels over them, add the new sprite.
createGalaxySystem(s) ==
  LET a == NewAlloc(s.starBuffers.alloc)
      sprite == [kind |-> "galaxy", alloc |-> a, count |-> s.COUNT]
  IN [s EXCEPT
        !.scene = (IF s.galaxy # NoSprite THEN @ \ {s.galaxy} ELSE @)
                    \cup {sprite},
        !.starBuffers = [alloc |-> a, particles |-> instancedArray(s.COUNT)],
        !.computeInit = [alloc |-> a, count |-> s.COUNT],
        !.computeUpdate = [alloc |-> a, count |-> s.COUNT],
        !.galaxy = sprite]

\* Mutant of createClouds: it also clears the stars' flag.
createClouds_ClearsBothFlags(s) ==
  LET a == NewAlloc(s.cloudBuffers.alloc)
      CLOUD_COUNT == s.config["cloudCount"]
      sprite == [kind |-> "cloudPlane", alloc |-> a, count |-> CLOUD_COUNT]
  IN [s EXCEPT
        !.scene = (IF s.cloudPlane # NoSprite THEN @ \ {s.cloudPlane} ELSE @)
                    \cup {sprite},
        !.cloudBuffers = [alloc |-> a,
                          particles |-> instancedArray(CLOUD_COUNT)],
        !.cloudInit = [alloc |-> a, count |-> CLOUD_COUNT],
        !.cloudUpdate = [alloc |-> a, count |-> CLOUD_COUNT],
        !.cloudCount = CLOUD_COUNT,
        !.cloudPlane = sprite,
        !.initialized = FALSE,
        !.cloudInitialized = FALSE]

\* Mutant of createClouds: this.cloudCount is left as it was.
createClouds_KeepsCloudCount(s) ==
  LET a == NewAlloc(s.cloudBuffers.alloc)
      CLOUD_COUNT == s.config["cloudCount"]
      sprite == [kind |-> "cloudPlane", alloc |-> a, count |-> CLOUD_COUNT]
  IN [s EXCEPT
        !.scene = (IF s.cloudPlane # NoSprite THEN @ \ {s.cloudPlane} ELSE @)
                    \cup {sprite},
        !.cloudBuffers = [alloc |-> a,
                          particles |-> instancedArray(CLOUD_COUNT)],
        !.cloudInit = [alloc |-> a, count |-> CLOUD_COUNT],
        !.cloudUpdate = [alloc |-> a, count |-> CLOUD_COUNT],
        !.cloudPlane = sprite,
        !.cloudInitialized = FALSE]

\* createClouds(): the same for the clouds, sized by config.cloudCount, and
\* it ends by clearing cloudInitialized.
createClouds(s) ==
  LET a == NewAlloc(s.cloudBuffers.alloc)
      CLOUD_COUNT == s.config["cloudCount"]
      sprite == [kind |-> "cloudPlane", alloc |-> a, count |-> CLOUD_COUNT]
  IN [s EXCEPT
        !.scene = (IF s.cloudPlane # NoSprite THEN @ \ {s.cloudPlane} ELSE @)
                    \cup {sprite},
        !.cloudBuffers = [alloc |-> a,
                          particles |-> instancedArray(CLOUD_COUNT)],
        !.cloudInit = [alloc |-> a, count |-> CLOUD_COUNT],
        !.cloudUpdate = [alloc |-> a, count |-> CLOUD_COUNT],
        !.cloudCount = CLOUD_COUNT,
        !.cloudPlane = sprite,
        !.cloudInitialized = FALSE]

\* Mutant of updateStarCount: the count is changed in place, the buffers are
\* kept.
updateStarCount_KeepsBuffers(s, newCount) ==
  [s EXCEPT !.COUNT = newCount, !.config["starCount"] = newCount,
            !.initialized = FALSE]

\* Mutant of updateStarCount: it ends with regenerate() instead of clearing
\* the stars' flag alone.
updateStarCount_Regenerates(s, newCount) ==
  LET s1 == [s EXCEPT !.COUNT = newCount, !.config["starCount"] = newCount]
  IN [createGalaxySystem(s1) EXCEPT !.initialized = FALSE,
                                    !.cloudInitialized = FALSE]

\* updateStarCount(newCount)
updateStarCount(s, newCount) ==
  LET s1 == [s EXCEPT !.COUNT = newCount, !.config["starCount"] = newCount]
  IN [createGalaxySystem(s1) EXCEPT !.initialized = FALSE]

\* Mutant of updateUniforms: setting a parameter also invalidates the stars.
updateUniforms_Invalidates(s, configUpdate) ==
  [s EXCEPT
     !.uniforms = [k \in UniformKeys |->
                     IF k \in DOMAIN configUpdate THEN configUpdate[k] ELSE @[k]],
     !.config = [k \in DOMAIN s.config |->
                   IF k = "cloudCount" /\ k \in DOMAIN configUpdate
                   THEN configUpdate[k] ELSE @[k]],
     !.initialized = FALSE]

\* updateUniforms(configUpdate): every key of configUpdate that is defined
\* is copied to its uniform; cloudCount is copied to config.cloudCount.
updateUniforms(s, configUpdate) ==
  [s EXCEPT
     !.uniforms = [k \in UniformKeys |->
                     IF k \in DOMAIN configUpdate THEN configUpdate[k] ELSE @[k]],
     !.config = [k \in DOMAIN s.config |->
                   IF k = "cloudCount" /\ k \in DOMAIN configUpdate
                   THEN configUpdate[k] ELSE @[k]]]

\* regenerate()
regenerate(s) == [s EXCEPT !.initialized = FALSE, !.cloudInitialized = FALSE]

\* update(), cut at its awaits.  A segment is the code that runs between two
\* suspensions; each submits at most one kernel and ends at an await (at) or
\* returns ("done").  ran names the kernel it submitted.

\* lines 418-423: write the frame uniforms, submit this.computeUpdate.
FromPhysics(s) ==
  [sim |-> [s EXCEPT !.starBuffers = RunUpdate(@, s.computeUpdate)],
   at |-> "awaitComputeUpdate", ran |-> "computeUpdate"]

\* lines 413-414: the clouds' generation, if it is due.
FromCloudCheck(s) ==
  IF ~s.cloudInitialized /\ s.cloudInit # NoKernel
  THEN [sim |-> [s EXCEPT !.cloudBuffers =
                    RunInit(@, s.cloudInit, CloudBake(s.uniforms))],
        at |-> "awaitCloudInit", ran |-> "cloudInit"]
  ELSE FromPhysics(s)

\* lines 408-409: the call of update(): the stars' generation, if it is due.
FromStart(s) ==
  IF ~s.initialized
  THEN [sim |-> [s EXCEPT !.starBuffers =
                    RunInit(@, s.computeInit, StarBake(s.uniforms))],
        at |-> "awaitComputeInit", ran |-> "computeInit"]
  ELSE FromCloudCheck(s)

\* line 410, after await computeAsync(this.computeInit).
AfterComputeInit(s) == FromCloudCheck([s EXCEPT !.initialized = TRUE])

\* line 415, after await computeAsync(this.cloudInit).
AfterCloudInit(s) == FromPhysics([s EXCEPT !.cloudInitialized = TRUE])

\* lines 425-426, after await computeAsync(this.computeUpdate).
AfterComputeUpdate(s) ==
  IF s.cloudUpdate # NoKernel
  THEN [sim |-> [s EXCEPT !.cloudBuffers = RunUpdate(@, s.cloudUpdate)],
        at |-> "awaitCloudUpdate", ran |-> "cloudUpdate"]
  ELSE [sim |-> s, at |-> "done", ran |-> "none"]

\* line 428, after await computeAsync(this.cloudUpdate): update() returns.
AfterCloudUpdate(s) == [sim |-> s, at |-> "done", ran |-> "none"]

Awaits == {"awaitComputeInit", "awaitCloudInit", "awaitComputeUpdate",
           "awaitCloudUpdate"}

\* Bookkeeping of a segment's dispatch.
EpochAfter(e, ran) ==
  CASE ran = "computeInit" -> [e EXCEPT !.star.gens = @ + 1]
    [] ran = "cloudInit" -> [e EXCEPT !.cloud.gens = @ + 1]
    [] OTHER -> e

PhysAfter(lp, s, ran) ==
  IF ran \in {"computeUpdate", "cloudUpdate"} THEN PhysRead(s.uniforms) ELSE lp

NewEpoch(cause) == [cause |-> cause, gens |-> 0]

\* The state main.js builds before the first frame (lines 236-238): the
\* constructor, createGalaxySystem(), createClouds().
Constructed ==
  [scene |-> {}, config |-> DefaultConfig,
   COUNT |-> DefaultConfig["starCount"], cloudCount |-> 0,
   uniforms |-> [k \in UniformKeys |-> DefaultConfig[k]],
   starBuffers |-> [alloc |-> 0, particles |-> <<>>],
   cloudBuffers |-> [alloc |-> 0, particles |-> <<>>],
   computeInit |-> NoKernel, computeUpdate |-> NoKernel,
   cloudInit |-> NoKernel, cloudUpdate |-> NoKernel,
   galaxy |-> NoSprite, cloudPlane |-> NoSprite,
   initialized |-> FALSE, cloudInitialized |-> FALSE]

\* The lane of subsystem sub whose index hashes to draws, after construction.
LaneOf(sub, draws) ==
  [sub |-> sub, draws |-> draws,
   config |-> DefaultConfig,
   uniforms |-> [k \in UniformKeys |-> DefaultConfig[k]],
   compute |-> [deltaTime |-> 16, mouse |-> Zero, mouseActive |-> 0],
   initialized |-> FALSE, cloudInitialized |-> FALSE,
   element |-> ZeroElement,
   baked |-> NoBake, steps |-> 0, disturbed |-> {}]

\* The frame loop is followed at one lane, which it leaves alone.
IdleLane == LaneOf("star", [s \in Salts |-> HALF])

\* The star count across page loads (the version of main.js that stores it
\* and reloads).

\* config.starCount as main.js declares it, and the limits of the load
\* block and of onStarCountChange.
DefaultStarCount == 500000
MinStarCount == 1000
MaxStarCount == 1000000
StarCountStep == 1000

\* A JavaScript number: an integer, or NaN.
Finite(v) == [finite |-> TRUE, value |-> v]
NotANumber == [finite |-> FALSE, value |-> 0]

\* A text is a sequence of characters.
Digits == <<"0", "1", "2", "3", "4", "5", "6", "7", "8", "9">>
IsDigit(c) == \E d \in 1..10 : Digits[d] = c
DigitValue(c) == (CHOOSE d \in 1..10 : Digits[d] = c) - 1
Blank == " "

\* String(v) of a number.
RECURSIVE DigitsOf(_)
DigitsOf(n) ==
  IF n < 10 THEN <<Digits[n + 1]>>
  ELSE Append(DigitsOf(n \div 10), Digits[(n % 10) + 1])
String(x) ==
  IF ~x.finite THEN <<"N", "a", "N">>
  ELSE IF x.value < 0 THEN <<"-">> \o DigitsOf(-x.value)
  ELSE DigitsOf(x.value)

\* Number(text): blanks at both ends are dropped; the empty text is 0; a
\* decimal numeral with an optional sign is its value; any other text of
\* the model's characters is NaN.
RECURSIVE Trimmed(_)
Trimmed(text) ==
  IF text = <<>> THEN text
  ELSE IF Head(text) = Blank THEN Trimmed(Tail(text))
  ELSE IF text[Len(text)] = Blank THEN Trimmed(SubSeq(text, 1, Len(text) - 1))
  ELSE text
RECURSIVE ValueOfDigits(_)
ValueOfDigits(ds) ==
  IF ds = <<>> THEN 0
  ELSE 10 * ValueOfDigits(SubSeq(ds, 1, Len(ds) - 1)) + DigitValue(ds[Len(ds)])
AllDigits(ds) == ds # <<>> /\ \A i \in 1..Len(ds) : IsDigit(ds[i])
Number(text) ==
  LET body == Trimmed(text)
  IN IF body = <<>> THEN Finite(0)
     ELSE IF AllDigits(body) THEN Finite(ValueOfDigits(body))
     ELSE IF Head(body) \in {"-", "+"} /\ AllDigits(Tail(body))
          THEN Finite(IF Head(body) = "-" THEN -ValueOfDigits(Tail(body))
                      ELSE ValueOfDigits(Tail(body)))
     ELSE NotANumber

\* Math.min(1_000_000, Math.max(1000, Math.round(x / 1000) * 1000)); NaN
\* stays NaN.  Math.round rounds a half upward.
Clamped(x) ==
  IF ~x.finite THEN NotANumber
  ELSE Finite(Min(MaxStarCount,
                  Max(MinStarCount,
                      ((2 * x.value + StarCountStep) \div (2 * StarCountStep))
                        * StarCountStep)))

\* sessionStorage.getItem(key) when nothing is stored.
NoItem == <<"null">>

\* The load block: config.starCount of a page loaded with raw stored.
Loaded(raw) ==
  LET parsed == IF raw # NoItem THEN Number(raw) ELSE NotANumber
  IN IF parsed.finite THEN Clamped(parsed).value ELSE DefaultStarCount

\* A page loaded with raw in sessionStorage, written last by whom.
LoadedPage(raw, by) ==
  [stored |-> raw, by |-> by, loaded |-> TRUE, starCount |-> Loaded(raw)]

\* No kernel has been dispatched yet.
NoDispatch == [kernel |-> "none"]

\* Before the first frame: uniforms.compute as initializeUniforms() builds it
\* (time 0, deltaTime 0.016, mouse at the origin, mouseActive 0), mouse3D
\* at the origin, no update() call suspended.
NoCalls ==
  [compute |-> [time |-> 0, deltaTime |-> 16, mouse |-> Zero, mouseActive |-> 0],
   mouse3D |-> Zero, queue |-> <<>>, made |-> 0, last |-> NoDispatch]

\* The frame loop after main.js has built the simulation.
FrameInit ==
  /\ calls = NoCalls
  /\ page = LoadedPage(NoItem, "nobody")
  /\ sim = createClouds(createGalaxySystem(Constructed))
  /\ inflight = EmptyBag
  /\ epoch = [star |-> NewEpoch("construct"), cloud |-> NewEpoch("construct")]
  /\ lastSet = [k \in UniformKeys |-> DefaultConfig[k]]
  /\ lastPhys = NoBake
  /\ regenShapes = {StarBake(sim.uniforms)}

Init ==
  /\ lane = IdleLane
  /\ FrameInit

\* One segment of update() runs: the activation leaves the await it was at
\* (from; "call" for the call itself) and suspends at r.at or finishes.
\* When update() returns, animate() renders and the activation ends.
Segment(from, r) ==
  /\ sim' = r.sim
  /\ inflight' = (IF from = "call" THEN inflight
                  ELSE inflight (-) SetToBag({from}))
                 (+) (IF r.at = "done" THEN EmptyBag ELSE SetToBag({r.at}))
  /\ epoch' = EpochAfter(epoch, r.ran)
  /\ lastPhys' = PhysAfter(lastPhys, sim, r.ran)
  /\ UNCHANGED <<lastSet, regenShapes, lane, page>>

\* animate(): requestAnimationFrame(animate) was called by the previous
\* activation before its await, so the next one starts whether or not the
\* previous update() has returned.
Animate ==
  /\ BagCardinality(inflight) < MaxInFlight
  /\ Segment("call", FromStart(sim))
  /\ UNCHANGED calls

ResumeComputeInit ==
  /\ BagIn("awaitComputeInit", inflight)
  /\ Segment("awaitComputeInit", AfterComputeInit(sim))
  /\ UNCHANGED calls

ResumeCloudInit ==
  /\ BagIn("awaitCloudInit", inflight)
  /\ Segment("awaitCloudInit", AfterCloudInit(sim))
  /\ UNCHANGED calls

ResumeComputeUpdate ==
  /\ BagIn("awaitComputeUpdate", inflight)
  /\ Segment("awaitComputeUpdate", AfterComputeUpdate(sim))
  /\ UNCHANGED calls

ResumeCloudUpdate ==
  /\ BagIn("awaitCloudUpdate", inflight)
  /\ Segment("awaitCloudUpdate", AfterCloudUpdate(sim))
  /\ UNCHANGED calls

\* The Tweakpane binding writes config[key] before it calls the handler.
Bound(s, key, value) == [s EXCEPT !.config[key] = value]

\* onUniformChange(key, value), main.js line 250 / 591.
OnUniformChange(key, value) ==
  /\ sim' = updateUniforms(sim, [k \in {key} |-> value])
  /\ lastSet' = [lastSet EXCEPT ![key] = value]
  /\ UNCHANGED <<inflight, epoch, lastPhys, regenShapes, lane, calls, page>>

\* A bound physics control changes (ui: rotationSpeed, mouseForce,
\* mouseRadius), which calls onUniformChange(key, config[key]).
OnPhysicsControl(key, value) ==
  /\ sim' = updateUniforms(Bound(sim, key, value), [k \in {key} |-> value])
  /\ lastSet' = [lastSet EXCEPT ![key] = value]
  /\ UNCHANGED <<inflight, epoch, lastPhys, regenShapes, lane, calls, page>>

\* onStarCountChange(newCount), main.js lines 595-598.
OnStarCountChange(newCount) ==
  /\ sim' = updateStarCount(Bound(sim, "starCount", newCount), newCount)
  /\ epoch' = [epoch EXCEPT !.star = NewEpoch("realloc")]
  /\ UNCHANGED <<inflight, lastSet, lastPhys, regenShapes, lane, calls, page>>

\* onCloudCountChange(newCount), main.js lines 266-269 / 599-602.
OnCloudCountChange(newCount) ==
  /\ sim' = createClouds(updateUniforms(Bound(sim, "cloudCount", newCount),
                                        [k \in {"cloudCount"} |-> newCount]))
  /\ epoch' = [epoch EXCEPT !.cloud = NewEpoch("realloc")]
  /\ UNCHANGED <<inflight, lastSet, lastPhys, regenShapes, lane, calls, page>>

\* onCloudTintChange(color), main.js lines 270-273 / 603-606.
OnCloudTintChange(color) ==
  /\ sim' = createClouds(updateUniforms(Bound(sim, "cloudTintColor", color),
                                        [k \in TintKeys |-> color]))
  /\ epoch' = [epoch EXCEPT !.cloud = NewEpoch("realloc")]
  /\ lastSet' = [lastSet EXCEPT !["cloudTintColor"] = color]
  /\ UNCHANGED <<inflight, lastPhys, regenShapes, lane, calls, page>>

\* onRegenerate(), main.js lines 274-278 / 607-611.
OnRegenerate ==
  /\ sim' = regenerate(createClouds(updateUniforms(sim, sim.config)))
  /\ epoch' = [star |-> NewEpoch("regenerate"), cloud |-> NewEpoch("regenerate")]
  /\ lastSet' = [k \in UniformKeys |-> sim.config[k]]
  /\ regenShapes' = regenShapes \cup {StarBake(sim'.uniforms)}
  /\ UNCHANGED <<inflight, lastPhys, lane, calls, page>>

\* A bound shape control changes (ui: the Structure folder), which calls
\* onRegenerate().
OnShapeControl(key, value) ==
  /\ sim' = regenerate(createClouds(
               updateUniforms(Bound(sim, key, value), Bound(sim, key, value).config)))
  /\ epoch' = [star |-> NewEpoch("regenerate"), cloud |-> NewEpoch("regenerate")]
  /\ lastSet' = [k \in UniformKeys |-> Bound(sim, key, value).config[k]]
  /\ regenShapes' = regenShapes \cup {StarBake(sim'.uniforms)}
  /\ UNCHANGED <<inflight, lastPhys, lane, calls, page>>

\* The frame loop: a new activation of animate(), or a suspended update()
\* resuming.
Frame ==
  \/ Animate
  \/ ResumeComputeInit
  \/ ResumeCloudInit
  \/ ResumeComputeUpdate
  \/ ResumeCloudUpdate

\* The frame loop and the handler that changes no parameter.
Core ==
  \/ Frame
  \/ OnRegenerate

\* The frame loop with regeneration and both count controls.
Next ==
  \/ Core
  \/ \E n \in StarCounts : OnStarCountChange(n)
  \/ \E n \in CloudCounts : OnCloudCountChange(n)

Spec == Init /\ [][Next]_vars

\* The shape key the model's controls and callers set.
EditedShapeKeys == {"armCount"}

\* The frame loop with shape changes: by updateUniforms alone, and by the
\* shape controls (which regenerate); the tint control reallocates the
\* clouds without regenerate().
NextShape ==
  \/ Core
  \/ \E c \in ValuesOf("cloudTintColor") : OnCloudTintChange(c)
  \/ \E k \in EditedShapeKeys : \E v \in ValuesOf(k) : OnUniformChange(k, v)
  \/ \E k \in EditedShapeKeys : \E v \in ValuesOf(k) : OnShapeControl(k, v)

SpecShape == Init /\ [][NextShape]_vars

\* The frame loop with the physics controls.
NextPhysics ==
  \/ Core
  \/ \E k \in PhysKeys : \E v \in ValuesOf(k) : OnPhysicsControl(k, v)

SpecPhysics == Init /\ [][NextPhysics]_vars

----------------------------------------------------------------------------
\* The kernels at one lane.

\* Most physics steps of the lane between two generations.
MaxSteps == 2

\* animate() caps the time since the last frame at 0.033 s.
MaxDeltaTime == 33

\* Mutant of FrameDelta: the time since the last frame is passed on as it is.
FrameDelta_Unclamped(elapsed) == elapsed

\* deltaTime of animate(), from the milliseconds since the last frame.
FrameDelta(elapsed) == Min(elapsed, MaxDeltaTime)

\* Mutant of FrameUniforms: the pointer counts as active in every frame.
FrameUniforms_AlwaysActive(deltaTime, mouse3D, mousePressed) ==
  [deltaTime |-> deltaTime, mouse |-> mouse3D, mouseActive |-> Unit]

\* update(), lines 419-421: the uniforms written from the arguments.
FrameUniforms(deltaTime, mouse3D, mousePressed) ==
  [deltaTime |-> deltaTime, mouse |-> mouse3D,
   mouseActive |-> IF mousePressed THEN Unit ELSE 0]

\* The uniforms.compute values the physics kernels read.
ComputeUniforms(l) ==
  [rotationSpeed |-> l.uniforms["rotationSpeed"],
   mouseForce |-> l.uniforms["mouseForce"],
   mouseRadius |-> l.uniforms["mouseRadius"],
   deltaTime |-> l.compute.deltaTime,
   mouse |-> l.compute.mouse,
   mouseActive |-> l.compute.mouseActive]

LaneReady(l) == IF l.sub = "star" THEN l.initialized ELSE l.cloudInitialized
LaneBake(l) == IF l.sub = "star" THEN StarBake(l.uniforms) ELSE CloudBake(l.uniforms)
LaneStiffness(l) == IF l.sub = "star" THEN StarStiffness ELSE CloudStiffness

\* update(), lines 408-416, at the lane: the generation kernel of its
\* subsystem runs and the flag is set.
GeneratedLane(l) ==
  LET e == IF l.sub = "star" THEN computeInit(l.element, l.draws, l.uniforms)
           ELSE cloudInit(l.element, l.draws, l.uniforms)
  IN [l EXCEPT !.element = e,
               !.initialized = IF l.sub = "star" THEN TRUE ELSE @,
               !.cloudInitialized = IF l.sub = "cloud" THEN TRUE ELSE @,
               !.baked = LaneBake(l),
               !.steps = 0]

\* What a physics step did to an element (bookkeeping): the pointer left it
\* away from its anchor, the rotation moved its anchor.
Disturbance(before, after) ==
  (IF after.position # after.originalPosition THEN {"displaced"} ELSE {})
  \cup (IF after.originalPosition # before.originalPosition THEN {"rotated"}
        ELSE {})

\* update(), lines 418-427, at the lane: the frame uniforms are written and
\* the physics kernel of its subsystem runs.
SteppedLane(l, deltaTime, mouse3D, mousePressed) ==
  LET l1 == [l EXCEPT !.compute = FrameUniforms(deltaTime, mouse3D, mousePressed)]
      e == IF l.sub = "star" THEN computeUpdate(l1.element, ComputeUniforms(l1))
           ELSE cloudUpdate(l1.element, ComputeUniforms(l1))
  IN [l1 EXCEPT !.element = e, !.steps = @ + 1,
                !.disturbed = @ \cup Disturbance(l.element, e)]

frame == <<sim, inflight, epoch, lastSet, lastPhys, regenShapes, calls, page>>

LaneGenerate ==
  /\ ~LaneReady(lane)
  /\ lane' = GeneratedLane(lane)
  /\ UNCHANGED frame

\* One frame of animate() after the generation: elapsed milliseconds since
\* the last frame, the pointer at mouse3D, pressed or not.
LaneStep(elapsed, mouse3D, mousePressed) ==
  /\ LaneReady(lane)
  /\ lane.steps < MaxSteps
  /\ lane' = SteppedLane(lane, FrameDelta(elapsed), mouse3D, mousePressed)
  /\ UNCHANGED frame

LaneRegenerate ==
  /\ lane' = regenerate(lane)
  /\ UNCHANGED frame

\* updateUniforms({[key]: value}) on the simulation of the lane.
LaneUpdateUniforms(key, value) ==
  /\ lane' = updateUniforms(lane, [k \in {key} |-> value])
  /\ UNCHANGED frame

\* The hash values of one index: one draw per salt.  The draw of salt 2
\* follows that of salt 4, the draws of salts 3, 6 and 7 that of salt 5.
Draws ==
  {d \in [Salts -> HashValues] :
     d[2] = d[4] /\ d[3] = d[5] /\ d[6] = d[5] /\ d[7] = d[5]}

\* The shape keys set at the lane.
LaneShapeKeys ==
  {"armCount", "armWidth", "randomness", "galaxyRadius", "galaxyThickness"}

\* Generation at the lane under the shapes the controls can set.
InitGenerate ==
  /\ lane \in {LaneOf(sub, d) : sub \in {"star", "cloud"}, d \in Draws}
  /\ FrameInit

NextGenerate ==
  \/ LaneGenerate
  \/ LaneRegenerate
  \/ \E k \in LaneShapeKeys : \E v \in ValuesOf(k) : LaneUpdateUniforms(k, v)

SpecGenerate == InitGenerate /\ [][NextGenerate]_vars

\* Arm counts a caller of updateUniforms can pass.
CallerArmCounts == {2, 0, -1}

NextGenerateAny ==
  \/ LaneGenerate
  \/ LaneRegenerate
  \/ \E v \in CallerArmCounts : LaneUpdateUniforms("armCount", v)

SpecGenerateAny == InitGenerate /\ [][NextGenerateAny]_vars

\* Milliseconds between two frames: a regular frame and a stalled one.
Elapsed == {16, 600}

\* Where the pointer's ray meets the interaction plane.
Pointers == {Zero, <<810, 0, 0>>}

\* Values updateUniforms is called with for the physics keys: what the
\* controls set, and a rotation speed large enough to turn a particle by
\* quarter turns within one frame.
StepValuesOf(k) ==
  CASE k = "rotationSpeed" -> {DefaultConfig[k], 72500}
    [] k = "mouseForce" -> {DefaultConfig[k]}
    [] k = "mouseRadius" -> ValuesOf(k)

\* The indices followed through the physics: at the axis and at mid radius,
\* on the arm's centre line and off it.
StepDraws ==
  {d \in [Salts -> HashValues] :
                 /\ d[2] = HALF
                 /\ d[3] = d[5] /\ d[6] = d[5] /\ d[7] = d[5]
                 /\ <<d[1], d[4], d[5]>> \in {<<0, HALF, HALF>>, <<0, 0, 99>>,
                                              <<HALF, HALF, HALF>>,
                                              <<HALF, 0, 99>>}}

InitStep ==
  /\ lane \in {LaneOf(sub, d) : sub \in {"star", "cloud"}, d \in StepDraws}
  /\ FrameInit

\* Generation, frames and regeneration at the lane under the physics
\* parameters.
NextStep ==
  \/ LaneGenerate
  \/ LaneRegenerate
  \/ \E k \in PhysKeys : \E v \in StepValuesOf(k) : LaneUpdateUniforms(k, v)
  \/ \E ms \in Elapsed : \E p \in Pointers : \E pressed \in BOOLEAN :
       LaneStep(ms, p, pressed)

SpecStep == InitStep /\ [][NextStep]_vars

----------------------------------------------------------------------------
\* Helpers of the properties.

Particles(buffers) == {buffers.particles[i] : i \in DOMAIN buffers.particles}
Generated(buffers) == {p \in Particles(buffers) : p.gen # 0}
\* The shapes a subsystem's generated particles show.
Shown(buffers) == {p.baked : p \in Generated(buffers)}
Suspended == BagCardinality(inflight)

----------------------------------------------------------------------------
\* C1: the physics kernel is never dispatched on buffers whose generation
\* kernel has not run since they were allocated: no particle of the current
\* star or cloud buffers has been stepped without having been generated.
C1_PhysicsOnlyOnGenerated ==
  \A p \in Particles(sim.starBuffers) \cup Particles(sim.cloudBuffers) :
    p.stepped => p.gen # 0

\* C2: buffers are reallocated (createGalaxySystem, createClouds) only at a
\* frame boundary, that is, in a step taken while no update() is suspended.
C2_ReallocOnlyAtFrameBoundary ==
  [][(sim'.starBuffers.alloc # sim.starBuffers.alloc
      \/ sim'.cloudBuffers.alloc # sim.cloudBuffers.alloc)
     => inflight = EmptyBag]_vars

\* C3: no two update() calls are ever in flight at the same time.
C3_UpdatesSequential == Suspended <= 1

\* C4: a regenerate() is never lost: while no generation kernel of a
\* subsystem has been dispatched since the last regenerate(), that subsystem
\* is not treated as Running.
C4_RegenerateNeverLost ==
  /\ (epoch.star.cause = "regenerate" /\ epoch.star.gens = 0)
       => ~sim.initialized
  /\ (epoch.cloud.cause = "regenerate" /\ epoch.cloud.gens = 0)
       => ~sim.cloudInitialized

\* C5: between two consecutive invalidations the generation kernel of a
\* subsystem is dispatched at most once.
C5_GenerationOncePerEpoch == epoch.star.gens <= 1 /\ epoch.cloud.gens <= 1

\* C6: each flag starts false, turns true only when an update() resumes
\* from the await of that subsystem's generation kernel, and turns false
\* only by regenerate() or by that subsystem's reallocation; no state is
\* terminal: in every state regenerate() can be called and the frame loop
\* can take a step.
C6_TwoStateMachine ==
  /\ ~sim.initialized /\ ~sim.cloudInitialized
  /\ [][/\ (~sim.initialized /\ sim'.initialized) => ResumeComputeInit
        /\ (~sim.cloudInitialized /\ sim'.cloudInitialized) => ResumeCloudInit
        /\ (sim.initialized /\ ~sim'.initialized)
             => (OnRegenerate \/ \E n \in StarCounts : OnStarCountChange(n))
        /\ (sim.cloudInitialized /\ ~sim'.cloudInitialized)
             => (OnRegenerate \/ \E n \in CloudCounts : OnCloudCountChange(n))
        /\ sim'.initialized \in BOOLEAN /\ sim'.cloudInitialized \in BOOLEAN
       ]_vars
  /\ [](ENABLED OnRegenerate /\ ENABLED Frame)

\* C6 witness: the stars are Running after one generation while the clouds
\* have been sent back to Uninitialized by a reallocation.
C6_Witness ==
  /\ sim.initialized /\ epoch.star.gens = 1
  /\ ~sim.cloudInitialized /\ epoch.cloud.cause = "realloc"

\* C7: a count change starts a fresh epoch with no partial resize: the
\* buffers of a subsystem always hold exactly the current count of records,
\* none written under an earlier allocation, and once the generation kernel
\* has been dispatched in the epoch every record is one it wrote.
C7_CountChangeFreshEpoch ==
  /\ sim.COUNT = sim.config["starCount"]
  /\ sim.cloudCount = sim.config["cloudCount"]
  /\ Len(sim.starBuffers.particles) = sim.COUNT
  /\ Len(sim.cloudBuffers.particles) = sim.cloudCount
  /\ \A p \in Particles(sim.starBuffers) : p.gen \in {0, sim.starBuffers.alloc}
  /\ \A p \in Particles(sim.cloudBuffers) : p.gen \in {0, sim.cloudBuffers.alloc}
  /\ epoch.star.gens > 0
       => \A p \in Particles(sim.starBuffers) : p.gen = sim.starBuffers.alloc
  /\ epoch.cloud.gens > 0
       => \A p \in Particles(sim.cloudBuffers) : p.gen = sim.cloudBuffers.alloc

\* C7 witness: the star count was changed from its default and the next
\* generation has run.
C7_Witness ==
  /\ sim.COUNT # DefaultConfig["starCount"]
  /\ epoch.star.cause = "realloc" /\ epoch.star.gens = 1
  /\ sim.initialized
  /\ \A p \in Particles(sim.starBuffers) : p.gen = sim.starBuffers.alloc

\* C8: a render (the end of an animate() activation) never happens while
\* another activation's update() is still suspended at a dispatch.
C8_RenderOnlyWhenIdle ==
  [][BagCardinality(inflight') < BagCardinality(inflight)
     => inflight' = EmptyBag]_vars

\* C9 as claimed: a shape shows in a subsystem only if it was in force at
\* construction or at some call of regenerate().
C9_ShapeShowsOnlyAfterRegenerate ==
  /\ Shown(sim.starBuffers) \subseteq regenShapes
  /\ {StarBake(b) : b \in Shown(sim.cloudBuffers)} \subseteq regenShapes

\* C9 as amended: updateUniforms with a shape key changes the uniforms and
\* nothing else (no buffer, kernel, sprite or flag); a shape newly shows in
\* a subsystem only in a step that dispatches that subsystem's generation
\* kernel, and it is the shape then in force; no other step (a physics step
\* among them) changes what a generated particle shows.
C9_ShapeShowsAtNextGeneration ==
  [][/\ (/\ UNCHANGED <<inflight, epoch, lastPhys, regenShapes>>
         /\ \E k \in ShapeKeys : \E v \in ValuesOf(k) : OnUniformChange(k, v))
          => sim' = [sim EXCEPT !.uniforms = sim'.uniforms]
     /\ Shown(sim'.starBuffers) \subseteq
          Shown(sim.starBuffers) \cup {StarBake(sim.uniforms)}
     /\ Shown(sim'.cloudBuffers) \subseteq
          Shown(sim.cloudBuffers) \cup {CloudBake(sim.uniforms)}
     /\ ~(Shown(sim'.starBuffers) \subseteq Shown(sim.starBuffers))
          => epoch'.star.gens = epoch.star.gens + 1
     /\ ~(Shown(sim'.cloudBuffers) \subseteq Shown(sim.cloudBuffers))
          => epoch'.cloud.gens = epoch.cloud.gens + 1
    ]_vars

\* C9 witness: armCount has been set by updateUniforms alone (config still
\* holds the old value) and regenerate() has not been called since; after
\* further physics steps the stars still show the shape they were generated
\* with, while the clouds, reallocated by the tint control and generated
\* again, show the new one.
C9_Witness ==
  /\ sim.initialized /\ sim.cloudInitialized
  /\ sim.uniforms["armCount"] # sim.config["armCount"]
  /\ epoch.cloud.cause = "realloc"
  /\ \E p \in Generated(sim.starBuffers) :
       p.stepped /\ p.baked["armCount"] # sim.uniforms["armCount"]
  /\ \E p \in Generated(sim.cloudBuffers) :
       p.stepped /\ p.baked["armCount"] = sim.uniforms["armCount"]

\* C10: setting a physics parameter changes no flag and no buffer, and
\* every physics dispatch reads, for each physics parameter, the value most
\* recently handed to updateUniforms.
C10_PhysicsParamsImmediate ==
  [][/\ (/\ UNCHANGED <<inflight, epoch, lastPhys, regenShapes>>
         /\ \E k \in PhysKeys : \E v \in ValuesOf(k) : OnPhysicsControl(k, v))
          => /\ sim'.initialized = sim.initialized
             /\ sim'.cloudInitialized = sim.cloudInitialized
             /\ sim'.starBuffers = sim.starBuffers
             /\ sim'.cloudBuffers = sim.cloudBuffers
     /\ (\/ CopiesIn("awaitComputeUpdate", inflight')
              > CopiesIn("awaitComputeUpdate", inflight)
         \/ CopiesIn("awaitCloudUpdate", inflight')
              > CopiesIn("awaitCloudUpdate", inflight))
          => lastPhys' = [k \in PhysKeys |-> lastSet[k]]
    ]_vars

\* C10 witness: a physics dispatch has read a rotation speed set by the
\* control while both subsystems were Running.
C10_Witness ==
  /\ sim.initialized /\ sim.cloudInitialized
  /\ lastPhys # NoBake
  /\ lastPhys["rotationSpeed"] = AltValue("rotationSpeed")
  /\ lastPhys["mouseRadius"] = AltValue("mouseRadius")

----------------------------------------------------------------------------
\* The kernels' arithmetic, at the lane.

\* C11: immediately after generation (the generation kernel has run and no
\* physics step has followed), position equals anchor, for a star and for a
\* cloud, under every shape and every hash draw.
C11_PositionIsAnchorAfterGeneration ==
  (LaneReady(lane) /\ lane.steps = 0)
    => lane.element.position = lane.element.originalPosition

\* C11 witness: a cloud generated off its arm's centre line and off the
\* galactic plane: position and anchor are the same non-zero point.
C11_Witness ==
  /\ lane.sub = "cloud" /\ LaneReady(lane) /\ lane.steps = 0
  /\ lane.element.calc.radiusOffset # 0
  /\ lane.element.position[2] # 0
  /\ lane.element.originalPosition = lane.element.position

\* C12: regeneration is idempotent.  Whatever physics steps and pointer
\* perturbations the element went through, once regenerate() and the next
\* generation have run, its position, anchor and derived attributes are what
\* the generation kernel writes into a never-written element under the same
\* shape and draws.
C12_RegenerationRestores ==
  (LaneReady(lane) /\ lane.steps = 0)
    => lane.element =
         (IF lane.sub = "star"
          THEN computeInit(ZeroElement, lane.draws, lane.baked)
          ELSE cloudInit(ZeroElement, lane.draws, lane.baked))

\* C12 witness: a star that the pointer displaced and whose anchor the
\* rotation moved has been generated again at a non-zero position.
C12_Witness ==
  /\ lane.sub = "star" /\ LaneReady(lane) /\ lane.steps = 0
  /\ lane.disturbed = {"displaced", "rotated"}
  /\ lane.baked = StarBake(lane.uniforms)
  /\ lane.element.position # Zero

\* C13: in every physics step the anchor is changed by the rotation term
\* only: the new anchor is the old anchor rotated under the step's rotation
\* speed and deltaTime, whatever the pointer, mouseActive, mouseForce,
\* mouseRadius, the spring and the current position are.
C13_AnchorRotatesOnly ==
  [][lane'.steps = lane.steps + 1
       => lane'.element.originalPosition =
            applyDifferentialRotation(lane.element.originalPosition,
                                      lane'.uniforms["rotationSpeed"],
                                      lane'.compute.deltaTime)]_vars

\* C13 witness: after a step with the pointer pressed within reach, the
\* position is away from the anchor, and the anchor has been rotated away
\* from where it was generated.
C13_Witness ==
  /\ LaneReady(lane) /\ lane.steps > 0
  /\ lane.compute.mouseActive = Unit
  /\ Length(Sub(lane.element.position, lane.compute.mouse))
       < lane.uniforms["mouseRadius"]
  /\ lane.disturbed = {"displaced", "rotated"}
  /\ lane.element.originalPosition # lane.element.calc.position

\* The rotation of a step applied to the element it found.
RotatedPosition ==
  applyDifferentialRotation(lane.element.position,
                            lane'.uniforms["rotationSpeed"],
                            lane'.compute.deltaTime)
RotatedAnchor ==
  applyDifferentialRotation(lane.element.originalPosition,
                            lane'.uniforms["rotationSpeed"],
                            lane'.compute.deltaTime)
Separation2(e) == Length2(Sub(e.position, e.originalPosition))
SameTurn ==
  QuarterOf(rotationAmount(lane.element.position,
                           lane'.uniforms["rotationSpeed"],
                           lane'.compute.deltaTime))
    = QuarterOf(rotationAmount(lane.element.originalPosition,
                               lane'.uniforms["rotationSpeed"],
                               lane'.compute.deltaTime))

C15_NoPointerForceOutOfReach ==
  [][(/\ lane'.steps = lane.steps + 1
      /\ \/ lane'.compute.mouseActive = 0
         \/ Length(Sub(RotatedPosition, lane'.compute.mouse))
              >= lane'.uniforms["mouseRadius"])
       => lane'.element.position =
            Add(RotatedPosition,
                applySpringForce(RotatedPosition, RotatedAnchor,
                                 LaneStiffness(lane), lane'.compute.deltaTime))
     ]_vars

\* C15 witness: a step has run with the pointer pressed but out of reach of
\* a star that an earlier step had displaced and the rotation had turned.
C15_Witness ==
  /\ lane.sub = "star" /\ LaneReady(lane) /\ lane.steps = MaxSteps
  /\ lane.compute.mouseActive = Unit
  /\ Length(Sub(lane.element.position, lane.compute.mouse))
       >= lane.uniforms["mouseRadius"] + Unit
  /\ lane.disturbed = {"displaced", "rotated"}

\* The position of a step after rotation and pointer force, before the
\* spring.
PushedPosition ==
  Add(RotatedPosition,
      applyMouseForce(RotatedPosition, lane'.compute.mouse,
                      lane'.compute.mouseActive, lane'.uniforms["mouseForce"],
                      lane'.uniforms["mouseRadius"], lane'.compute.deltaTime))

\* b lies between a and target (target included), on one coordinate.
Between(a, b, target) ==
  \/ a <= b /\ b <= target
  \/ target <= b /\ b <= a

\* C16: the spring cannot overshoot.  In every step 0 <= stiffness * dt < 1
\* (stiffness 2.0 for stars, 1.0 for clouds, dt capped by animate()), and
\* the spring leaves each coordinate of the position between where it was
\* before the spring and the rotated anchor, never beyond the anchor.
C16_SpringNeverOvershoots ==
  [][lane'.steps = lane.steps + 1
       => /\ 0 <= LaneStiffness(lane) * lane'.compute.deltaTime
          /\ LaneStiffness(lane) * lane'.compute.deltaTime < Unit * Milli
          /\ \A i \in 1..3 :
               Between(PushedPosition[i], lane'.element.position[i],
                       lane'.element.originalPosition[i])]_vars

\* C16 witness: a star away from its anchor after a step whose deltaTime was
\* capped at the maximum (a stalled frame).
C16_Witness ==
  /\ lane.sub = "star" /\ LaneReady(lane) /\ lane.steps = MaxSteps
  /\ lane.compute.deltaTime = MaxDeltaTime
  /\ lane.compute.mouseActive = 0
  /\ "displaced" \in lane.disturbed
  /\ lane.element.position # lane.element.originalPosition

\* Distance of a point from the vertical axis.
PlanarDistance(p) == Length(<<p[1], 0, p[3]>>)

\* C17: every generated particle, for every hash draw, has |position.y| <=
\* galaxyThickness and planar distance <= galaxyRadius + armWidth / 2; with
\* armWidth = 0 the planar distance is at most galaxyRadius.
C17_GeneratedWithinDisc ==
  LaneReady(lane)
    => LET g == lane.element.calc
           p == lane.element.position
       IN /\ Abs(p[2]) <= g.galaxyThickness
          /\ PlanarDistance(p) <= g.galaxyRadius + Mul(g.armWidth, HALF)
          /\ g.armWidth = 0 => PlanarDistance(p) <= g.galaxyRadius

\* C17 witness: a cloud generated with armWidth 0 from the largest radius
\* draw and the lowest height draw, off the axis and off the plane.
C17_Witness ==
  /\ lane.sub = "cloud" /\ LaneReady(lane)
  /\ lane.element.calc.armWidth = 0
  /\ lane.draws[1] = 99 /\ lane.draws[5] = 0
  /\ PlanarDistance(lane.element.position) > 0
  /\ lane.element.position[2] < 0

\* C18: the sparsity factor written for a star lies in [0, 1] for all
\* armWidth >= 0 and randomness >= 0; the divisors are positive also when
\* armWidth and randomness are 0, and the factor is then 0.
C18_SparsityInUnitInterval ==
  (lane.sub = "star" /\ LaneReady(lane))
    => LET g == lane.element.calc
           f == lane.element.attribute.densityFactor
       IN /\ Mul(g.armWidth, HALF) + EPSILON > 0
          /\ Mul(g.randomness, HALF) + EPSILON > 0
          /\ 0 <= f /\ f <= Unit
          /\ (g.armWidth = 0 /\ g.randomness = 0) => f = 0

\* C18 witness: a star generated with armWidth 0 and randomness 0 (factor 0).
C18_Witness ==
  /\ lane.sub = "star" /\ LaneReady(lane)
  /\ lane.element.calc.armWidth = 0 /\ lane.element.calc.randomness = 0
  /\ lane.draws[4] = 0
  /\ lane.element.attribute.densityFactor = 0

\* C19: an arm count <= 0 never reaches the generator's division: in every
\* generation the arm count the kernel read is at least 1, armIndex is an
\* integer in [0, armCount - 1] and armAngle is defined.
C19_ArmCountGuarded ==
  LaneReady(lane)
    => LET g == lane.element.calc
       IN /\ g.armCount >= 1
          /\ g.armIndex \in 0..(g.armCount - 1)
          /\ "armAngle" \notin g.undefined

\* C20: with randomness = 0 and armWidth = 0 the generated angle is exactly
\* armIndex * 2 pi / armCount + normalizedRadius * spiralTightness * 2 pi
\* with armIndex in {0 .. armCount - 1}, and the radial distance is exactly
\* radius: the particle lies on one of armCount ideal spiral curves.
C20_IdealSpiralWithoutJitter ==
  (/\ LaneReady(lane)
   /\ lane.element.calc.randomness = 0
   /\ lane.element.calc.armWidth = 0)
    => LET g == lane.element.calc
           p == lane.element.position
           ideal == Quot(g.armIndex * TWO_PI, g.armCount)
                      + Mul(Mul(g.normalizedRadius, g.spiralTightness), TWO_PI)
       IN /\ g.armIndex \in 0..(g.armCount - 1)
          /\ g.angle = ideal
          /\ g.offsetRadius = g.radius
          /\ p[1] = Mul(Cos(ideal), g.radius)
          /\ p[3] = Mul(Sin(ideal), g.radius)
          /\ PlanarDistance(p) = g.radius

\* C20 witness: a star generated with randomness 0 and armWidth 0 on the
\* last of three arms, off the axis, from draws that would jitter it.
C20_Witness ==
  /\ lane.sub = "star" /\ LaneReady(lane)
  /\ lane.element.calc.randomness = 0 /\ lane.element.calc.armWidth = 0
  /\ lane.element.calc.armCount = 3 /\ lane.element.calc.armIndex = 2
  /\ lane.draws[3] # HALF /\ lane.draws[4] # HALF
  /\ lane.element.calc.radius > 0

\* C21: the velocity buffer and the derived-attribute buffers (star
\* sparsity; cloud tint, size and rotation) are written only by the
\* generation step: a step that changes one of them is a generation, and no
\* physics step changes them.
C21_DerivedBuffersWrittenOnlyByGeneration ==
  [][/\ lane'.steps = lane.steps + 1
          => /\ lane'.element.velocity = lane.element.velocity
             /\ lane'.element.attribute = lane.element.attribute
     /\ (\/ lane'.element.velocity # lane.element.velocity
         \/ lane'.element.attribute # lane.element.attribute)
          => ~LaneReady(lane) /\ LaneReady(lane')]_vars

\* C21 witness: a star after the most physics steps, displaced by the
\* pointer and turned by the rotation, holding a velocity and a sparsity
\* factor that are not zero.
C21_Witness ==
  /\ lane.sub = "star" /\ LaneReady(lane) /\ lane.steps = MaxSteps
  /\ lane.disturbed = {"displaced", "rotated"}
  /\ lane.element.velocity # Zero
  /\ lane.element.attribute.densityFactor > 0

\* C22: for every generated star the initial velocity has magnitude
\* 5 / (offsetRadius + 0.5), a positive finite value, and is
\* (-sin(angle) * speed, 0, cos(angle) * speed), whose dot product with
\* (x, 0, z) is zero.
C22_VelocityPositiveTangential ==
  (lane.sub = "star" /\ LaneReady(lane))
    => LET g == lane.element.calc
           v == lane.element.velocity
           p == lane.element.position
       IN /\ "velocity" \notin g.undefined
          /\ g.orbitalSpeed > 0
          /\ Length(v) = g.orbitalSpeed
          /\ v = <<-Mul(Sin(g.angle), g.orbitalSpeed), 0,
                   Mul(Cos(g.angle), g.orbitalSpeed)>>
          /\ v[1] * p[1] + v[3] * p[3] = 0

\* What belongs to the stars and to the clouds in the simulation object.
StarPart(s) ==
  [buffers |-> s.starBuffers, init |-> s.computeInit, update |-> s.computeUpdate,
   flag |-> s.initialized, sprite |-> s.galaxy, count |-> s.COUNT]
CloudPart(s) ==
  [buffers |-> s.cloudBuffers, init |-> s.cloudInit, update |-> s.cloudUpdate,
   flag |-> s.cloudInitialized, sprite |-> s.cloudPlane, count |-> s.cloudCount]

\* renderer.computeAsync(kernel) on the simulation s: the kernel runs over
\* the buffers it was built on.
Dispatched(s, kernel) ==
  CASE kernel = "computeInit" ->
         [s EXCEPT !.starBuffers = RunInit(@, s.computeInit, StarBake(s.uniforms))]
    [] kernel = "cloudInit" ->
         [s EXCEPT !.cloudBuffers = RunInit(@, s.cloudInit, CloudBake(s.uniforms))]
    [] kernel = "computeUpdate" ->
         [s EXCEPT !.starBuffers = RunUpdate(@, s.computeUpdate)]
    [] kernel = "cloudUpdate" ->
         [s EXCEPT !.cloudBuffers = RunUpdate(@, s.cloudUpdate)]

\* C23: stars and clouds are independent.  createClouds() leaves the star
\* buffers, star kernels and the stars' flag unchanged; updateStarCount()
\* leaves the cloud buffers, cloud kernels and cloudInitialized unchanged; a
\* star kernel changes nothing of the clouds and a cloud kernel nothing of
\* the stars, so the state after a frame is the same whichever ran first.
C23_SubsystemsIndependent ==
  /\ StarPart(createClouds(sim)) = StarPart(sim)
  /\ \A n \in StarCounts : CloudPart(updateStarCount(sim, n)) = CloudPart(sim)
  /\ \A k \in {"computeInit", "computeUpdate"} :
       CloudPart(Dispatched(sim, k)) = CloudPart(sim)
  /\ \A k \in {"cloudInit", "cloudUpdate"} :
       StarPart(Dispatched(sim, k)) = StarPart(sim)
  /\ \A k \in {"computeInit", "computeUpdate"} :
       \A c \in {"cloudInit", "cloudUpdate"} :
         Dispatched(Dispatched(sim, k), c) = Dispatched(Dispatched(sim, c), k)

\* C23 witness: both subsystems have been reallocated by their count
\* controls, generated again and stepped, on different allocations, and a
\* further star-count change would find the clouds Running.
C23_Witness ==
  /\ epoch.star.cause = "realloc" /\ epoch.cloud.cause = "realloc"
  /\ sim.initialized /\ sim.cloudInitialized
  /\ sim.starBuffers.alloc # sim.cloudBuffers.alloc
  /\ \E p \in Generated(sim.starBuffers) : p.stepped
  /\ \E p \in Generated(sim.cloudBuffers) : p.stepped

\* C24: a physics step applies its terms in a fixed order.  Position and
\* anchor are rotated; the pointer displacement is computed from the rotated
\* position and added; the spring displacement is computed from the
\* pointer-displaced position toward the anchor as rotated in this same step;
\* the stored position is rotated position + pointer displacement + spring
\* displacement and the stored anchor is the rotated anchor.
C24_StepOrder ==
  [][lane'.steps = lane.steps + 1
       => /\ lane'.element.originalPosition = RotatedAnchor
          /\ lane'.element.position =
               Add(PushedPosition,
                   applySpringForce(PushedPosition, RotatedAnchor,
                                    LaneStiffness(lane), lane'.compute.deltaTime))
     ]_vars

\* C24 witness: a star after a step in which the rotation turned it, the
\* pressed pointer was within reach and displaced it, and the spring acts on
\* a position away from the anchor.
C24_Witness ==
  /\ lane.sub = "star" /\ LaneReady(lane) /\ lane.steps = 1
  /\ lane.compute.mouseActive = Unit
  /\ lane.uniforms["rotationSpeed"] = 72500
  /\ lane.disturbed = {"displaced", "rotated"}
  /\ lane.element.position # lane.element.originalPosition

-----------------------------------------------------------------------------
\* The frame uniforms over the update() calls.

\* Most update() calls followed.
MaxCalls == 3

\* The frame uniforms the physics kernels read at a dispatch.
FrameValues(compute) ==
  [deltaTime |-> compute.deltaTime, mouse |-> compute.mouse,
   mouseActive |-> compute.mouseActive]

\* update(), lines 418-421, in the call a: time grows by the call's
\* deltaTime, and deltaTime, mouse and mouseActive are written from its
\* arguments; mouse3D is main.js's vector, copied as it is now.
WrittenCompute(c, a) ==
  LET f == FrameUniforms(a.deltaTime, c.mouse3D, a.mousePressed)
  IN [time |-> c.compute.time + a.deltaTime, deltaTime |-> f.deltaTime,
      mouse |-> f.mouse, mouseActive |-> f.mouseActive]

\* A segment of the call a (r as FromStart ... AfterCloudUpdate give it) in
\* numbers: the segment that submits computeUpdate writes the frame uniforms
\* first; the others leave them alone.  rest are the other suspended calls,
\* in the order of their submissions.
CallsAfter(c, rest, a, r) ==
  LET compute == IF r.ran = "computeUpdate" THEN WrittenCompute(c, a)
                 ELSE c.compute
      a1 == [a EXCEPT !.at = r.at,
                      !.wrote = @ \/ r.ran = "computeUpdate",
                      !.star = IF r.ran = "computeUpdate"
                               THEN FrameValues(compute) ELSE @]
  IN [c EXCEPT !.compute = compute,
               !.queue = IF r.at = "done" THEN rest ELSE Append(rest, a1),
               !.last = IF r.ran = "none" THEN @
                        ELSE [kernel |-> r.ran, by |-> a,
                              before |-> c.compute, seen |-> compute]]

\* The segment of update() that follows the await at.
AfterAwait(at, s) ==
  CASE at = "awaitComputeInit" -> AfterComputeInit(s)
    [] at = "awaitCloudInit" -> AfterCloudInit(s)
    [] at = "awaitComputeUpdate" -> AfterComputeUpdate(s)
    [] at = "awaitCloudUpdate" -> AfterCloudUpdate(s)

\* animate() runs elapsed milliseconds after the last frame and calls
\* update(renderer, deltaTime, mouse3D, mousePressed).
FrameCall(elapsed, mousePressed) ==
  /\ calls.made < MaxCalls
  /\ BagCardinality(inflight) < MaxInFlight
  /\ Segment("call", FromStart(sim))
  /\ calls' = CallsAfter([calls EXCEPT !.made = @ + 1], calls.queue,
                         [at |-> "call", deltaTime |-> FrameDelta(elapsed),
                          mousePressed |-> mousePressed, wrote |-> FALSE,
                          star |-> <<>>],
                         FromStart(sim))

\* The dispatch submitted first completes first: the call that awaits it
\* resumes.
FrameResume ==
  /\ calls.queue # <<>>
  /\ LET a == Head(calls.queue)
     IN /\ Segment(a.at, AfterAwait(a.at, sim))
        /\ calls' = CallsAfter(calls, Tail(calls.queue), a, AfterAwait(a.at, sim))

\* mousemove: the listener writes the intersection point into mouse3D.
MouseMove(p) ==
  /\ p # calls.mouse3D
  /\ calls' = [calls EXCEPT !.mouse3D = p]
  /\ UNCHANGED <<sim, inflight, epoch, lastSet, lastPhys, regenShapes, lane, page>>

NextFrame ==
  \/ \E ms \in Elapsed : \E pressed \in BOOLEAN : FrameCall(ms, pressed)
  \/ FrameResume
  \/ \E p \in Pointers : MouseMove(p)
  \/ OnRegenerate

SpecFrame == Init /\ [][NextFrame]_vars

\* C25: within one update() call the star and the cloud physics kernel are
\* dispatched with the same deltaTime, pointer position and pointer-active
\* values, those passed to that call; the generation kernels of the call are
\* dispatched before these values are written; the time uniform increases by
\* exactly deltaTime per update() call.
C25_FrameValuesPerCall ==
  LET d == calls.last
  IN /\ d.kernel \in {"computeUpdate", "cloudUpdate"}
          => /\ d.seen.deltaTime = d.by.deltaTime
             /\ d.seen.mouseActive = (IF d.by.mousePressed THEN Unit ELSE 0)
     /\ d.kernel = "cloudUpdate" => FrameValues(d.seen) = d.by.star
     /\ d.kernel \in {"computeInit", "cloudInit"}
          => ~d.by.wrote /\ d.seen = d.before
     /\ d.kernel = "computeUpdate"
          => ~d.by.wrote /\ d.seen.time = d.before.time + d.by.deltaTime
     /\ d.kernel = "cloudUpdate" => d.by.wrote /\ d.seen.time = d.before.time

-----------------------------------------------------------------------------
\* The methods of GalaxySimulation called in any order, between the
\* segments of update(), one update() at a time.

CallCreateGalaxySystem ==
  /\ sim' = createGalaxySystem(sim)
  /\ UNCHANGED <<inflight, epoch, lastSet, lastPhys, regenShapes, lane, calls, page>>

CallCreateClouds ==
  /\ sim' = createClouds(sim)
  /\ epoch' = [epoch EXCEPT !.cloud = NewEpoch("realloc")]
  /\ UNCHANGED <<inflight, lastSet, lastPhys, regenShapes, lane, calls, page>>

CallUpdateStarCount(newCount) ==
  /\ sim' = updateStarCount(sim, newCount)
  /\ epoch' = [epoch EXCEPT !.star = NewEpoch("realloc")]
  /\ UNCHANGED <<inflight, lastSet, lastPhys, regenShapes, lane, calls, page>>

\* updateUniforms({ cloudCount }): the one key that reaches a count.
CallUpdateUniforms(cloudCount) ==
  /\ sim' = updateUniforms(sim, [k \in {"cloudCount"} |-> cloudCount])
  /\ UNCHANGED <<inflight, epoch, lastSet, lastPhys, regenShapes, lane, calls, page>>

CallRegenerate ==
  /\ sim' = regenerate(sim)
  /\ epoch' = [star |-> NewEpoch("regenerate"), cloud |-> NewEpoch("regenerate")]
  /\ regenShapes' = regenShapes \cup {StarBake(sim.uniforms)}
  /\ UNCHANGED <<inflight, lastSet, lastPhys, lane, calls, page>>

\* A frame that starts once the previous update() has returned.
FrameInTurn ==
  \/ inflight = EmptyBag /\ Animate
  \/ ResumeComputeInit
  \/ ResumeCloudInit
  \/ ResumeComputeUpdate
  \/ ResumeCloudUpdate

NextCalls ==
  \/ FrameInTurn
  \/ CallCreateGalaxySystem
  \/ CallCreateClouds
  \/ \E n \in StarCounts : CallUpdateStarCount(n)
  \/ \E n \in CloudCounts : CallUpdateUniforms(n)
  \/ CallRegenerate

SpecCalls == Init /\ [][NextCalls]_vars

\* C26: after any sequence of createGalaxySystem(), createClouds(),
\* updateStarCount(), updateUniforms() and regenerate() calls, for each
\* subsystem the buffer length equals the dispatch size of its current
\* generation and physics kernels and the sprite's instance count (stars:
\* this.COUNT; clouds: this.cloudCount), and the kernels refer to the same
\* buffers, those the sprite draws.
C26_SizesAgree ==
  /\ Len(sim.starBuffers.particles) = sim.COUNT
  /\ sim.computeInit.count = sim.COUNT
  /\ sim.computeUpdate.count = sim.COUNT
  /\ sim.galaxy.count = sim.COUNT
  /\ sim.computeInit.alloc = sim.starBuffers.alloc
  /\ sim.computeUpdate.alloc = sim.starBuffers.alloc
  /\ sim.galaxy.alloc = sim.starBuffers.alloc
  /\ Len(sim.cloudBuffers.particles) = sim.cloudCount
  /\ sim.cloudInit.count = sim.cloudCount
  /\ sim.cloudUpdate.count = sim.cloudCount
  /\ sim.cloudPlane.count = sim.cloudCount
  /\ sim.cloudInit.alloc = sim.cloudBuffers.alloc
  /\ sim.cloudUpdate.alloc = sim.cloudBuffers.alloc
  /\ sim.cloudPlane.alloc = sim.cloudBuffers.alloc

\* C26 witness: both counts have been changed from their defaults, the star
\* buffers were reallocated more than once, config.cloudCount has since been
\* set to a count the clouds were not rebuilt for, and a frame has stepped
\* both subsystems at the new sizes.
C26_Witness ==
  /\ sim.COUNT # DefaultConfig["starCount"]
  /\ sim.cloudCount # DefaultConfig["cloudCount"]
  /\ sim.config["cloudCount"] # sim.cloudCount
  /\ sim.starBuffers.alloc # 2
  /\ \A p \in Particles(sim.starBuffers) \cup Particles(sim.cloudBuffers) : p.stepped

StarSprites(scene) == {o \in scene : o.kind = "galaxy"}
CloudSprites(scene) == {o \in scene : o.kind = "cloudPlane"}

\* C27: after any sequence of createGalaxySystem() and createClouds() calls
\* the scene holds exactly one star sprite and at most one cloud sprite, each
\* the one created most recently; every call that creates a sprite removes
\* the sprite it replaces.
C27_OneSpriteEach ==
  [][/\ StarSprites(sim'.scene) = {sim'.galaxy}
     /\ CloudSprites(sim'.scene) \subseteq {sim'.cloudPlane}
     /\ Cardinality(CloudSprites(sim'.scene)) <= 1
     /\ sim'.starBuffers.alloc # sim.starBuffers.alloc
          => /\ sim'.galaxy # sim.galaxy
             /\ sim.galaxy \notin sim'.scene
             /\ sim'.galaxy.alloc = sim'.starBuffers.alloc
     /\ sim'.cloudBuffers.alloc # sim.cloudBuffers.alloc
          => /\ sim'.cloudPlane # sim.cloudPlane
             /\ sim.cloudPlane \notin sim'.scene
             /\ sim'.cloudPlane.alloc = sim'.cloudBuffers.alloc]_vars

\* C27 witness: both sprites have been replaced, the star sprite more than
\* once, and the scene holds the two latest.
C27_Witness ==
  /\ sim.starBuffers.alloc # 2 /\ sim.COUNT # DefaultConfig["starCount"]
  /\ sim.cloudBuffers.alloc # 1
  /\ sim.scene = {sim.galaxy, sim.cloudPlane}
  /\ sim.initialized /\ sim.cloudInitialized

-----------------------------------------------------------------------------
\* The star count across page loads.

\* The values the Star Count control hands to onStarCountChange (min
\* 100000, max 1000000, step 50000), and other numbers a caller can pass.
ControlCounts == {100000 + 50000 * i : i \in 0..18}
OtherCounts == {0, 1499, 1500, 2000000}

\* Texts another script of the page, or the user, can leave under the key.
ForeignTexts ==
  {<<>>, <<Blank>>, <<"a", "b", "c">>, <<"N", "a", "N">>, <<"1", "2", "p", "x">>,
   <<"7">>, <<"-", "5">>, <<"1", "4", "9", "9">>, <<Blank, "2", "5", "0", "0", Blank>>,
   <<"2", "0", "0", "0", "0", "0", "0">>}

\* onStarCountChange(newCount) of the version that persists: the normalised
\* count is stored as text and the page is reloaded, which runs the load
\* block again.
OnStarCountChangeReload(newCount) ==
  /\ LET next == Clamped(Finite(newCount))
     IN page' = LoadedPage(String(next), "handler")
  /\ UNCHANGED <<sim, inflight, epoch, lastSet, lastPhys, regenShapes, lane, calls>>

\* The user reloads the page.
Reload ==
  /\ ~page.loaded
  /\ page' = LoadedPage(page.stored, page.by)
  /\ UNCHANGED <<sim, inflight, epoch, lastSet, lastPhys, regenShapes, lane, calls>>

\* The item is written from outside main.js; the page keeps running.
SetItem(text) ==
  /\ text # page.stored
  /\ page' = [page EXCEPT !.stored = text, !.by = "other", !.loaded = FALSE]
  /\ UNCHANGED <<sim, inflight, epoch, lastSet, lastPhys, regenShapes, lane, calls>>

\* The item is removed (a new session).
RemoveItem ==
  /\ page.stored # NoItem
  /\ page' = [page EXCEPT !.stored = NoItem, !.by = "other", !.loaded = FALSE]
  /\ UNCHANGED <<sim, inflight, epoch, lastSet, lastPhys, regenShapes, lane, calls>>

NextPersist ==
  \/ \E n \in ControlCounts \cup OtherCounts : OnStarCountChangeReload(n)
  \/ Reload
  \/ \E text \in ForeignTexts : SetItem(text)
  \/ RemoveItem

SpecPersist == Init /\ [][NextPersist]_vars

\* A count the load block accepts as it is.
NormalCount(v) ==
  v % StarCountStep = 0 /\ MinStarCount <= v /\ v <= MaxStarCount

\* The text is a number written out: a decimal numeral, with or without a
\* sign, blanks around it allowed.
IsNumeral(text) ==
  LET body == Trimmed(text)
  IN \/ AllDigits(body)
     \/ body # <<>> /\ Head(body) \in {"-", "+"} /\ AllDigits(Tail(body))

\* C28: the persisted star count is normalised idempotently.
\* onStarCountChange stores a multiple of 1000 in [1000, 1000000], and the
\* next page load reads the stored value back unchanged as config.starCount;
\* for any stored finite number the loaded starCount is a multiple of 1000 in
\* [1000, 1000000]; when nothing is stored or the stored text is not a
\* finite number, the default 500000 is kept.
C28_PersistedCountNormalised ==
  /\ page.by = "handler"
       => /\ Number(page.stored).finite
          /\ NormalCount(Number(page.stored).value)
          /\ page.loaded => page.starCount = Number(page.stored).value
  /\ (page.loaded /\ page.stored # NoItem /\ IsNumeral(page.stored))
       => NormalCount(page.starCount)
  /\ (page.loaded /\ (page.stored = NoItem \/ ~IsNumeral(page.stored)))
       => page.starCount = DefaultStarCount

====
